---------------------------- MODULE Spec2Model ----------------------------
(***************************************************************************)
(* A model of the self-evolving benchmark loop (bench/generate.py,         *)
(* bench/evaluate.py, bench/evolve.py, bench/ema.py, bench/run.py).        *)
(*                                                                         *)
(* Texts are sequences of one-character strings, so that normalize_text,   *)
(* str.strip and the TF-IDF tokenizer are computed on the characters.      *)
(* Similarities, thresholds and trend values are integers in hundredths    *)
(* (SimScale): 0.88 is 88.  None is -1 where the code returns an index.    *)
(***************************************************************************)
EXTENDS Integers, Sequences, FiniteSets, TLC

(***************************************************************************)
(* Bounds of the model.                                                    *)
(***************************************************************************)
MaxHistory == 2     \* largest configured NoveltyFilter.max_history
MaxInserted == 3    \* texts handed to seed/add in one NoveltyFilter run
MaxSeedLen == 2     \* longest list handed to one seed call
MaxRegen == 2       \* largest configured generation.max_regen
MaxN == 2           \* largest --n (iterations of one session)

SimScale == 10 * 10     \* similarities and scores are in hundredths

\* the None of sim_to_index
None == -1

(***************************************************************************)
(* Characters and texts.                                                   *)
(***************************************************************************)
UpperToLower == [c \in {"A"} |-> "a"]

Whitespace == {" "}

\* \w of the regular expressions, over the characters the model uses
WordChars == {"a", "b", "c", "d", "e", "f", "A"}

\* the punctuation the second re.sub of normalize_text keeps
KeptPunct == {".", ",", "?", "!", ":", ";", "-", "(", ")", "[", "]", "/"}

S_abcd   == <<"a", "b", " ", "c", "d">>
S_Abcd   == <<"A", "b", " ", "c", "d">>
S_a_bcd  == <<"a", "$", "b", " ", "c", "d">>
S_abcdq  == <<"a", "b", " ", "c", "d", "?">>
S_ef     == <<"e", "f", " ">>
S_q      == <<"?">>
S_bang   == <<"!">>
S_braces == <<"{", "}">>

\* the texts the callers and the generator hand in
Texts == {S_abcd, S_Abcd, S_a_bcd, S_abcdq, S_ef, S_q, S_bang}

\* str.lower
Lower(s) == [i \in 1..Len(s) |->
               IF s[i] \in DOMAIN UpperToLower THEN UpperToLower[s[i]] ELSE s[i]]

\* re.sub(r"\s+", " ", s): every run of whitespace becomes one space
RECURSIVE CollapseWs(_)
CollapseWs(s) ==
  IF s = <<>> THEN <<>>
  ELSE IF s[1] \in Whitespace
       THEN IF Len(s) > 1 /\ s[2] \in Whitespace
            THEN CollapseWs(Tail(s))
            ELSE <<" ">> \o CollapseWs(Tail(s))
       ELSE <<s[1]>> \o CollapseWs(Tail(s))

RECURSIVE LStrip(_)
LStrip(s) == IF s # <<>> /\ s[1] \in Whitespace THEN LStrip(Tail(s)) ELSE s

RECURSIVE RStrip(_)
RStrip(s) == IF s # <<>> /\ s[Len(s)] \in Whitespace
             THEN RStrip(SubSeq(s, 1, Len(s) - 1)) ELSE s

\* str.strip
Strip(s) == RStrip(LStrip(s))

KeepChar(c) == c \in WordChars \/ c \in Whitespace \/ c \in KeptPunct

normalize_text(s) == SelectSeq(Strip(CollapseWs(Lower(s))), KeepChar)

\* SHA-256 of the normalized text: a digest that differs for different
\* normalized texts
text_hash(s) == <<"sha256", normalize_text(s)>>

(***************************************************************************)
(* TfidfVectorizer(ngram_range=(1, 2), min_df=1): lower-cased tokens of    *)
(* two or more word characters, unigrams and bigrams of adjacent tokens.   *)
(***************************************************************************)
\* the tokens of s, given the word run cur read so far
RECURSIVE TokensFrom(_, _)
TokensFrom(s, cur) ==
  IF s = <<>> THEN (IF Len(cur) >= 2 THEN <<cur>> ELSE <<>>)
  ELSE IF s[1] \in WordChars
       THEN TokensFrom(Tail(s), Append(cur, s[1]))
       ELSE (IF Len(cur) >= 2 THEN <<cur>> ELSE <<>>) \o TokensFrom(Tail(s), <<>>)

Tokens(s) == TokensFrom(Lower(s), <<>>)

\* the terms of a document: its tokens and its pairs of adjacent tokens
Terms(s) ==
  LET tk == Tokens(s)
  IN  [i \in 1..Len(tk) |-> <<tk[i]>>]
        \o [i \in 1..(Len(tk) - 1) |-> <<tk[i], tk[i + 1]>>]

TermCount(ts, w) == Cardinality({i \in 1..Len(ts) : ts[i] = w})

TermSet(ts) == {ts[i] : i \in 1..Len(ts)}

RECURSIVE SumOver(_, _)
SumOver(S, f) ==
  IF S = {} THEN 0
  ELSE LET x == CHOOSE y \in S : TRUE IN f[x] + SumOver(S \ {x}, f)

\* cosine_similarity of two documents in hundredths, rounded down.  The value
\* is exact (100) for documents with proportional term counts and exact (0)
\* for documents that share no term or have none, whatever the idf weights;
\* in between the idf weights are taken as 1.
Cosine(a, b) ==
  LET ta == Terms(a)
      tb == Terms(b)
      V == TermSet(ta) \cup TermSet(tb)
      dot == SumOver(V, [w \in V |-> TermCount(ta, w) * TermCount(tb, w)])
      na == SumOver(V, [w \in V |-> TermCount(ta, w) * TermCount(ta, w)])
      nb == SumOver(V, [w \in V |-> TermCount(tb, w) * TermCount(tb, w)])
  IN  IF dot = 0 THEN 0
      ELSE CHOOSE k \in 0..SimScale :
             /\ k * k * na * nb <= SimScale * SimScale * dot * dot
             /\ (k = SimScale
                   \/ (k + 1) * (k + 1) * na * nb > SimScale * SimScale * dot * dot)

\* fit_transform raises ValueError("empty vocabulary") when no document of
\* the corpus has a token
EmptyVocabulary(corpus) == \A i \in 1..Len(corpus) : Tokens(corpus[i]) = <<>>

\* the text of a generator reply that is read as the question: the JSON
\* object without members
ReplyTexts == {S_braces}

\* every text the model handles: the texts handed in, the reply texts and
\* their stripped forms
AllTexts == Texts \cup ReplyTexts \cup {Strip(s) : s \in Texts \cup ReplyTexts}

\* text_hash, Cosine and the token-free texts, tabulated once over AllTexts
HashOf == [s \in AllTexts |-> text_hash(s)] @@ <<>>

CosineOf == [p \in AllTexts \X AllTexts |-> Cosine(p[1], p[2])] @@ <<>>

TokenFree == {s \in AllTexts : EmptyVocabulary(<<s>>)}

(***************************************************************************)
(* State.                                                                  *)
(***************************************************************************)
VARIABLES
  novelty,      \* the NoveltyFilter: max_sim, max_history, texts (_texts), hashes (_hashes)
  inserted,     \* every text handed to seed or add so far, in order (history variable)
  ret,          \* the last NoveltyFilter call of the caller and what it returned
  pc,           \* where main() stands
  cfg,          \* the configuration file and the command line of the session
  ema,          \* the EMAScore: alpha, value
  difficulty,   \* main's difficulty
  t,            \* main's loop variable
  attempt,      \* the loop variable of generate_novel_question
  last_info,    \* last_info of generate_novel_question
  store,        \* the RunStore's files: questions, answers, evals, metrics steps
  calls,        \* generator calls of the current iteration (history variable)
  rejectedLog,  \* per question record, the candidates is_novel rejected (history variable)
  adj,          \* an adjust_difficulty call: the policy, the arguments, the result
  alphaCalls,   \* the alpha_from_half_life calls of a caller: argument and outcome
  evalCall,     \* an Evaluator.evaluate call: the grader's reply and the outcome
  focus         \* a next_focus call: the policy, the history, the result

nfVars == <<inserted, ret>>

sessVars == <<pc, cfg, ema, difficulty, t, attempt, last_info, store, calls, rejectedLog>>

pureVars == <<alphaCalls, evalCall, focus>>

vars == <<novelty, inserted, ret, pc, cfg, ema, difficulty, t, attempt, last_info,
          store, calls, rejectedLog, adj, alphaCalls, evalCall, focus>>

\* the values of the variables a specification does not use
NFIdle == inserted = <<>> /\ ret = [op |-> "new"]

SessIdle ==
  /\ pc = "idle" /\ cfg = <<>> /\ ema = <<>> /\ difficulty = 0 /\ t = 0
  /\ attempt = 0 /\ last_info = <<>> /\ store = <<>> /\ calls = <<>>
  /\ rejectedLog = <<>>

AdjIdle == adj = <<>>

PureIdle == alphaCalls = <<>> /\ evalCall = <<>> /\ focus = <<>>

\* the thresholds (novelty.max_sim) the configurations use, in hundredths
Thresholds == {0, 88, SimScale}

(***************************************************************************)
(* NoveltyFilter (generate.py).  Each method takes the object and returns  *)
(* the object after the call.                                              *)
(***************************************************************************)
NoveltyFilter(ms, mh) ==
  [max_sim |-> ms, max_history |-> mh, texts |-> <<>>, hashes |-> {}]

\* add with the capacity test off by one: evicts when the history is full
add_evicts_early(self, question) ==
  LET h == HashOf[question]
      H1 == self.hashes \cup {h}
      T1 == Append(self.texts, question)
  IN  IF Len(T1) >= self.max_history
      THEN [self EXCEPT !.texts = Tail(T1),
                        !.hashes = H1 \ {HashOf[T1[1]]}]
      ELSE [self EXCEPT !.texts = T1, !.hashes = H1]

add(self, question) ==
  LET h == HashOf[question]
      H1 == self.hashes \cup {h}
      T1 == Append(self.texts, question)
  IN  IF Len(T1) > self.max_history
      THEN [self EXCEPT !.texts = Tail(T1),
                        !.hashes = H1 \ {HashOf[T1[1]]}]
      ELSE [self EXCEPT !.texts = T1, !.hashes = H1]

\* previous_questions[-max_history:] (the whole list when max_history is 0)
LastSlice(list, k) ==
  IF k = 0 \/ k >= Len(list) THEN list
  ELSE SubSeq(list, Len(list) - k + 1, Len(list))

RECURSIVE AddAll(_, _)
AddAll(self, list) ==
  IF list = <<>> THEN self ELSE AddAll(add(self, Head(list)), Tail(list))

seed(self, previous_questions) ==
  AddAll(self, LastSlice(previous_questions, self.max_history))

\* sims of the candidate against every history entry
Sims(self, question) ==
  [i \in 1..Len(self.texts) |-> CosineOf[<<question, self.texts[i]>>]]

MaxOf(sims) == CHOOSE m \in {sims[i] : i \in 1..Len(sims)} :
                 \A i \in 1..Len(sims) : sims[i] <= m

\* np.argmax: the first index of the maximum, counted from 0
ArgMax(sims) == (CHOOSE i \in 1..Len(sims) :
                   /\ sims[i] = MaxOf(sims)
                   /\ \A j \in 1..(i - 1) : sims[j] < sims[i]) - 1

\* is_novel that inserts the text it accepts
is_novel_inserts(self, question) ==
  LET h == HashOf[question]
      sims == Sims(self, question)
      added == [self EXCEPT !.texts = Append(@, question), !.hashes = @ \cup {h}]
  IN  IF h \in self.hashes
      THEN [raised |-> FALSE, ok |-> FALSE,
            info |-> [hash_dup |-> TRUE, max_sim |-> SimScale, sim_to_index |-> None],
            self |-> self]
      ELSE IF self.texts = <<>>
      THEN [raised |-> FALSE, ok |-> TRUE,
            info |-> [hash_dup |-> FALSE, max_sim |-> 0, sim_to_index |-> None],
            self |-> added]
      ELSE IF \A i \in 1..Len(self.texts) + 1 :
                Append(self.texts, question)[i] \in TokenFree
      THEN [raised |-> TRUE, ok |-> FALSE,
            info |-> [hash_dup |-> FALSE, max_sim |-> 0, sim_to_index |-> None],
            self |-> self]
      ELSE [raised |-> FALSE, ok |-> ~(MaxOf(sims) >= self.max_sim),
            info |-> [hash_dup |-> FALSE, max_sim |-> MaxOf(sims),
                      sim_to_index |-> ArgMax(sims)],
            self |-> IF MaxOf(sims) >= self.max_sim THEN self ELSE added]

\* is_novel: raised (the ValueError of fit_transform), the verdict ok, info,
\* and the object after the call
is_novel(self, question) ==
  LET h == HashOf[question]
      sims == Sims(self, question)
  IN  IF h \in self.hashes
      THEN [raised |-> FALSE, ok |-> FALSE,
            info |-> [hash_dup |-> TRUE, max_sim |-> SimScale, sim_to_index |-> None],
            self |-> self]
      ELSE IF self.texts = <<>>
      THEN [raised |-> FALSE, ok |-> TRUE,
            info |-> [hash_dup |-> FALSE, max_sim |-> 0, sim_to_index |-> None],
            self |-> self]
      ELSE IF \A i \in 1..Len(self.texts) + 1 :
                Append(self.texts, question)[i] \in TokenFree
      THEN [raised |-> TRUE, ok |-> FALSE,
            info |-> [hash_dup |-> FALSE, max_sim |-> 0, sim_to_index |-> None],
            self |-> self]
      ELSE [raised |-> FALSE, ok |-> ~(MaxOf(sims) >= self.max_sim),
            info |-> [hash_dup |-> FALSE, max_sim |-> MaxOf(sims),
                      sim_to_index |-> ArgMax(sims)],
            self |-> self]

(***************************************************************************)
(* A caller of one NoveltyFilter: any sequence of seed, add and is_novel.  *)
(***************************************************************************)
SeqsUpTo(S, n) == UNION {[1..k -> S] : k \in 0..n}

NFInit ==
  /\ \E ms \in Thresholds, mh \in 1..MaxHistory : novelty = NoveltyFilter(ms, mh)
  /\ inserted = <<>>
  /\ ret = [op |-> "new"]
  /\ SessIdle /\ AdjIdle /\ PureIdle

NFSeed ==
  \E prev \in SeqsUpTo(Texts, MaxSeedLen) :
    /\ Len(inserted) + Len(prev) <= MaxInserted
    /\ novelty' = seed(novelty, prev)
    /\ inserted' = inserted \o prev
    /\ ret' = [op |-> "seed"]
    /\ UNCHANGED <<sessVars, adj, pureVars>>

NFAdd ==
  \E q \in Texts :
    /\ Len(inserted) < MaxInserted
    /\ novelty' = add(novelty, q)
    /\ inserted' = Append(inserted, q)
    /\ ret' = [op |-> "add", question |-> q]
    /\ UNCHANGED <<sessVars, adj, pureVars>>

NFIsNovel ==
  \E q \in Texts :
    LET r == is_novel(novelty, q)
    IN  /\ novelty' = r.self
        /\ ret' = [op |-> "is_novel", question |-> q, raised |-> r.raised,
                   ok |-> r.ok, info |-> r.info]
        /\ UNCHANGED <<inserted, sessVars, adj, pureVars>>

NFNext == NFSeed \/ NFAdd \/ NFIsNovel

SpecNF == NFInit /\ [][NFNext]_vars

(***************************************************************************)
(* Claims about the NoveltyFilter, checked under SpecNF.                   *)
(***************************************************************************)
\* the greatest similarity of q to an entry of the history T
MaxCosine(T, q) ==
  CHOOSE m \in {CosineOf[<<q, T[i]>>] : i \in 1..Len(T)} :
    \A i \in 1..Len(T) : CosineOf[<<q, T[i]>>] <= m

\* the fingerprints of the texts of the history T
Fingerprints(T) == {HashOf[T[i]] : i \in 1..Len(T)}

\* the last k elements of a sequence
MostRecent(list, k) == [i \in 1..k |-> list[Len(list) - k + i]]

Min(a, b) == IF a <= b THEN a ELSE b

\* C1: add(t) followed at once by is_novel(t) returns rejected with
\* hash_dup = True and max_sim = 1.0, whatever the history was.
C1_AddThenIsNovelIsExactDup ==
  [][(ret.op = "add" /\ ret'.op = "is_novel" /\ ret'.question = ret.question)
       => (/\ ~ret'.raised
           /\ ~ret'.ok
           /\ ret'.info.hash_dup
           /\ ret'.info.max_sim = SimScale)]_vars

\* C2: the history never holds more than max_history texts and is exactly
\* the most recent min(n, max_history) of the n texts inserted, in order.
C2_HistoryIsMostRecent ==
  /\ Len(novelty.texts) <= novelty.max_history
  /\ novelty.texts =
       MostRecent(inserted, Min(Len(inserted), novelty.max_history))

\* C2 witness: more texts were inserted than the capacity holds
C2_Witness ==
  /\ Len(inserted) > novelty.max_history
  /\ novelty.max_history >= 2
  /\ ret.op \in {"add", "seed"}

\* C3: the fingerprint set is exactly the set of fingerprints of the texts
\* of the history.
C3_HashesAreImageOfTexts == novelty.hashes = Fingerprints(novelty.texts)

\* C4: is_novel leaves the history and the fingerprint set as they were,
\* whatever it returns.
C4_IsNovelChangesNothing ==
  [][ret'.op = "is_novel" => novelty' = novelty]_vars

\* C4 witness: is_novel accepted a text that the history does not hold
C4_Witness ==
  /\ ret.op = "is_novel"
  /\ ~ret.raised /\ ret.ok
  /\ novelty.texts # <<>>
  /\ \A i \in 1..Len(novelty.texts) : novelty.texts[i] # ret.question

\* C5: is_novel accepts with max_sim = 0.0 on an empty history; otherwise it
\* rejects exactly when the fingerprint is in the set or the greatest
\* similarity is >= the threshold, and accepts in every other case.
C5_DecisionRule ==
  ret.op = "is_novel" =>
    /\ ~ret.raised
    /\ novelty.texts = <<>> => (ret.ok /\ ret.info.max_sim = 0)
    /\ novelty.texts # <<>> =>
         (ret.ok <=> ~(\/ HashOf[ret.question] \in novelty.hashes
                       \/ MaxCosine(novelty.texts, ret.question) >= novelty.max_sim))

(***************************************************************************)
(* EMAScore (ema.py).  A trend value or a score v is the integer           *)
(* v * SimScale * EmaUnit, so that every update of a session is exact;     *)
(* alpha is in sixteenths (AlphaDen) and a half-life in hundredths.        *)
(***************************************************************************)
AlphaDen == 4 * 4

EmaUnit == AlphaDen ^ MaxN

\* the scores the grader's replies normalize to, in hundredths
Scores == {0, 70, SimScale}

\* alpha with the 1 - dropped: 2^(-1/half_life)
alpha_from_half_life_decay(half_life) ==
  IF half_life <= 0 THEN [raised |-> TRUE, alpha |-> 0]
  ELSE [raised |-> FALSE,
        alpha |-> AlphaDen \div (2 ^ (SimScale \div half_life))]

\* alpha_from_half_life that takes any half-life
alpha_from_half_life_unchecked(half_life) ==
  IF half_life <= 0 THEN [raised |-> FALSE, alpha |-> AlphaDen \div 2]
  ELSE [raised |-> FALSE,
        alpha |-> AlphaDen - AlphaDen \div (2 ^ (SimScale \div half_life))]

\* alpha = 1 - 2^(-1/half_life), exact for the half-lives 1.0, 0.5 and 0.25
\* (1/2, 3/4 and 15/16); raised is the ValueError
alpha_from_half_life(half_life) ==
  IF half_life <= 0 THEN [raised |-> TRUE, alpha |-> 0]
  ELSE [raised |-> FALSE,
        alpha |-> AlphaDen - AlphaDen \div (2 ^ (SimScale \div half_life))]

EMAScore(alpha) == [alpha |-> alpha, value |-> None]

\* update with the two weights exchanged
update_swapped(self, x) ==
  IF self.value = None
  THEN [self EXCEPT !.value = x]
  ELSE [self EXCEPT !.value =
          ((AlphaDen - self.alpha) * x + self.alpha * self.value) \div AlphaDen]

\* update: the object after the call; the call returns its value
update(self, x) ==
  IF self.value = None
  THEN [self EXCEPT !.value = x]
  ELSE [self EXCEPT !.value =
          (self.alpha * x + (AlphaDen - self.alpha) * self.value) \div AlphaDen]

(***************************************************************************)
(* EvolutionPolicy (evolve.py).                                            *)
(***************************************************************************)
IncreaseAt == 82

DecreaseAt == 62

PyMax(a, b) == IF a >= b THEN a ELSE b

PyMin(a, b) == IF a <= b THEN a ELSE b

\* adjust_difficulty with both thresholds exclusive
adjust_difficulty_strict(self, current, ema_value) ==
  LET nxt == IF ema_value > IncreaseAt * EmaUnit THEN current + 1
             ELSE IF ema_value < DecreaseAt * EmaUnit THEN current - 1
             ELSE current
  IN  PyMax(self.difficulty_min, PyMin(self.difficulty_max, nxt))

adjust_difficulty(self, current, ema_value) ==
  LET nxt == IF ema_value >= IncreaseAt * EmaUnit THEN current + 1
             ELSE IF ema_value <= DecreaseAt * EmaUnit THEN current - 1
             ELSE current
  IN  PyMax(self.difficulty_min, PyMin(self.difficulty_max, nxt))

(***************************************************************************)
(* Replies of the collaborators.  A reply is what json.loads makes of its  *)
(* text, or of the {...} block found in it: a JSON value tagged with its   *)
(* type, NoJson when neither parses.  Numbers are in hundredths; a reply   *)
(* carries its text (txt) where the code reads it.                         *)
(***************************************************************************)
NoJson == [ty |-> "none"]

JNull == [ty |-> "null"]

JNum(v) == [ty |-> "num", v |-> v]

JStr(str) == [ty |-> "str", s |-> str]

JBool(b) == [ty |-> "bool", b |-> b]

JList(items) == [ty |-> "list", items |-> items]

JObj(fields) == [ty |-> "obj", fields |-> fields]

\* bool(v) of Python, as the "or" of "_safe_json_extract(txt) or {}" takes it
Truthy(v) ==
  CASE v.ty = "none" -> FALSE
    [] v.ty = "null" -> FALSE
    [] v.ty = "num"  -> v.v # 0
    [] v.ty = "str"  -> v.s # ""
    [] v.ty = "bool" -> v.b
    [] v.ty = "list" -> v.items # <<>>
    [] v.ty = "obj"  -> DOMAIN v.fields # {}

\* _safe_json_extract: the parsed value, NoJson for None
safe_json_extract(reply) == reply.json

\* dict.setdefault on the members of an object
setdefault(fields, k, d) == IF k \in DOMAIN fields THEN fields ELSE fields @@ (k :> d)

\* QuestionGenerator.generate: raised is the AttributeError of .setdefault on
\* a value that is no dict; question is obj["question"]
generate(reply) ==
  LET parsed == safe_json_extract(reply)
      obj == IF Truthy(parsed) THEN parsed ELSE JObj(<<>>)
  IN  IF obj.ty # "obj"
      THEN [raised |-> TRUE, question |-> <<>>]
      ELSE [raised |-> FALSE,
            question |-> IF "question" \in DOMAIN obj.fields
                         THEN obj.fields["question"].s
                         ELSE Strip(reply.txt)]

\* the keys Evaluator.evaluate fills in under "subscores"
SubscoreKeys ==
  <<"correctness", "completeness", "reasoning_quality", "format_compliance", "safety">>

\* float(x): numbers, booleans and numeric strings convert, the rest raises
Float(x) ==
  CASE x.ty = "num"  -> [raised |-> FALSE, v |-> x.v]
    [] x.ty = "bool" -> [raised |-> FALSE, v |-> IF x.b THEN SimScale ELSE 0]
    [] x.ty = "str"  -> IF x.s = "0.7" THEN [raised |-> FALSE, v |-> 70]
                        ELSE [raised |-> TRUE, v |-> 0]
    [] OTHER         -> [raised |-> TRUE, v |-> 0]

\* clamp of evaluate: max(0.0, min(1.0, float(x))), 0.0 when float raises
clamp(x) ==
  IF Float(x).raised THEN 0 ELSE PyMax(0, PyMin(SimScale, Float(x).v))

RECURSIVE SetDefaults(_, _)
\* the loop of evaluate.py 89-90 over the keys left
SetDefaults(subs, keys) ==
  IF keys = <<>> THEN subs
  ELSE SetDefaults(setdefault(subs, Head(keys),
                              IF Head(keys) # "safety" THEN JNum(0) ELSE JNum(SimScale)),
                   Tail(keys))

\* Evaluator.evaluate: raised is the AttributeError of .setdefault on a value
\* that is no dict (the reply, or its "subscores"); obj is the dict returned
evaluate(reply) ==
  LET parsed == safe_json_extract(reply)
      obj == IF Truthy(parsed) THEN parsed ELSE JObj(<<>>)
  IN  IF obj.ty # "obj" THEN [raised |-> TRUE]
      ELSE
        LET f1 == setdefault(obj.fields, "score", JNum(0))
            f2 == setdefault(f1, "subscores", JObj(<<>>))
        IN  IF f2["subscores"].ty # "obj" THEN [raised |-> TRUE]
            ELSE
              LET subs == SetDefaults(f2["subscores"].fields, SubscoreKeys)
                  f3 == setdefault(f2, "error_tags", JList(<<>>))
                  f4 == setdefault(f3, "feedback", JStr(""))
              IN  [raised |-> FALSE,
                   obj |-> [f4 EXCEPT
                     !["score"] = JNum(clamp(@)),
                     !["subscores"] = JObj([k \in DOMAIN subs |-> JNum(clamp(subs[k]))]),
                     !["error_tags"] = IF @.ty = "list" THEN @ ELSE JList(<<>>)]]

\* ", ".join(tags[:4]) of run.py 186 raises TypeError unless every one of
\* the first four tags is a string
Joinable(tags) ==
  \A i \in 1..PyMin(4, Len(tags.items)) : tags.items[i].ty = "str"

(***************************************************************************)
(* main (run.py) with generate_novel_question (generate.py).  A step ends  *)
(* where main waits for the generator, the answerer or the grader.         *)
(***************************************************************************)
\* the question texts the generator's replies carry
GenTexts == {S_abcd, S_a_bcd, S_ef, S_q, S_bang}

\* the generator's replies: an object with a question, an object without
\* members, text that holds no JSON, and a JSON list
GenReplies ==
  {[json |-> JObj([question |-> JStr(q)])] : q \in GenTexts}
    \cup {[json |-> JObj(<<>>), txt |-> S_braces],
          [json |-> NoJson, txt |-> S_ef],
          [json |-> JList(<<JNum(SimScale)>>)]}

\* the grader's replies: an object with a score in range, text that holds
\* no JSON, a JSON list, an object with null subscores, one whose error_tags
\* hold a number, and one with a member "t"
GradeReplies ==
  {[json |-> JObj([score |-> JNum(sc)])] : sc \in Scores}
    \cup {[json |-> NoJson],
          [json |-> JList(<<JNum(SimScale)>>)],
          [json |-> JObj([score |-> JNum(70), subscores |-> JNull])],
          [json |-> JObj([score |-> JNum(70), error_tags |-> JList(<<JNum(SimScale)>>)])],
          [json |-> JObj([score |-> JNum(70), t |-> JNum(7 * SimScale)])]}

\* evolution.difficulty_min, evolution.difficulty_max and --difficulty
DifficultySettings == {<<1, 5, 3>>, <<1, 5, 0>>, <<2, 4, 7>>}

\* --half-life, in hundredths
HalfLives == {0 - SimScale, 0, 50, SimScale}

\* novelty.max_sim of the configuration or --max-sim, in hundredths
MaxSims == {0, 88, 150}

\* generate and evaluate, tabulated once over the replies
GenerateOf == [r \in GenReplies |-> generate(r)] @@ <<>>

EvaluateOf == [r \in GradeReplies |-> evaluate(r)] @@ <<>>

\* --eval-model: a grading model that always replies {"score": 0.7}, and one
\* that may give any of GradeReplies
EvalModels == {"constant", "free"}

\* the replies the grading model of the session can give
RepliesOf(eval_model) ==
  IF eval_model = "constant" THEN {[json |-> JObj([score |-> JNum(70)])]}
  ELSE GradeReplies

Config(ms, mh, mr, d, n, hl, em) ==
  [max_sim |-> ms, max_history |-> mh, max_regen |-> mr,
   difficulty_min |-> d[1], difficulty_max |-> d[2], difficulty |-> d[3],
   n |-> n, half_life |-> hl, eval_model |-> em]

\* the sessions: every novelty setting under the default difficulty bounds,
\* the half-life 1.0 and the constant grading model, and every difficulty
\* setting, half-life and grading model under one novelty setting
Configs ==
  {Config(ms, mh, mr, <<1, 5, 3>>, n, SimScale, "constant") :
     ms \in MaxSims, mh \in 1..MaxHistory, mr \in 1..MaxRegen, n \in 1..MaxN}
    \cup {Config(88, 1, 1, d, n, hl, em) :
            d \in DifficultySettings, n \in 1..MaxN, hl \in HalfLives,
            em \in EvalModels}

EmptyStore == [questions |-> <<>>, answers |-> <<>>, evals |-> <<>>, steps |-> <<>>]

NoInfo == [hash_dup |-> FALSE, max_sim |-> 0, sim_to_index |-> None, forced |-> FALSE]

NoCalls == [checked |-> 0, unchecked |-> 0]

\* the "question" fields of the stored question records
QuestionTexts(questions) == [i \in 1..Len(questions) |-> questions[i].question]

\* the returned info without the mark of a forced question
ReturnedInfo_unmarked(info, forced) ==
  [hash_dup |-> info.hash_dup, max_sim |-> info.max_sim,
   sim_to_index |-> info.sim_to_index, forced |-> FALSE]

\* info of is_novel as generate_novel_question returns it: the key "forced"
\* is absent (FALSE here) unless the question was forced
ReturnedInfo(info, forced) ==
  [hash_dup |-> info.hash_dup, max_sim |-> info.max_sim,
   sim_to_index |-> info.sim_to_index, forced |-> forced]

\* the row main appends for the question it got (run.py 127-140)
QuestionRow(tt, diff, raw, info) ==
  [t |-> tt, difficulty |-> diff, question |-> Strip(raw), novelty |-> info]

Init ==
  /\ pc = "boot"
  /\ cfg \in Configs
  /\ novelty = NoveltyFilter(0, 0)
  /\ ema = EMAScore(0)
  /\ difficulty = 0
  /\ t = 0
  /\ attempt = 0
  /\ last_info = NoInfo
  /\ store = EmptyStore
  /\ calls = NoCalls
  /\ rejectedLog = <<>>
  /\ NFIdle /\ AdjIdle /\ PureIdle

\* main up to the first generator call (run.py 50-112)
Startup ==
  /\ pc = "boot"
  /\ novelty' = seed(NoveltyFilter(cfg.max_sim, cfg.max_history),
                     QuestionTexts(store.questions))
  /\ IF alpha_from_half_life(cfg.half_life).raised
     THEN /\ pc' = "aborted"
          /\ UNCHANGED <<ema, difficulty>>
     ELSE /\ ema' = EMAScore(alpha_from_half_life(cfg.half_life).alpha)
          /\ difficulty' = PyMax(1, PyMin(5, cfg.difficulty))
          /\ pc' = IF cfg.n > 0 THEN "gen" ELSE "done"
  /\ t' = 0
  /\ attempt' = 0
  /\ last_info' = NoInfo
  /\ calls' = NoCalls
  /\ UNCHANGED <<cfg, store, rejectedLog, nfVars, adj, pureVars>>

\* one pass of the loop of generate_novel_question: the generator replies,
\* is_novel judges the stripped text; an accepted question is added, returned
\* and written by main, which then calls the answerer
GenCandidate ==
  /\ pc = "gen"
  /\ attempt < cfg.max_regen
  /\ \E reply \in GenReplies :
       LET raw == GenerateOf[reply].question
           qtext == Strip(raw)
           r == is_novel(novelty, qtext)
       IN  /\ calls' = [calls EXCEPT !.checked = @ + 1]
           /\ IF GenerateOf[reply].raised
              THEN /\ pc' = "crashed_reply"
                   /\ UNCHANGED <<novelty, attempt, last_info, store, rejectedLog>>
              ELSE IF r.raised
              THEN /\ pc' = "crashed"
                   /\ novelty' = r.self
                   /\ UNCHANGED <<attempt, last_info, store, rejectedLog>>
              ELSE IF r.ok
              THEN /\ novelty' = add(r.self, qtext)
                   /\ last_info' = ReturnedInfo(r.info, FALSE)
                   /\ store' = [store EXCEPT !.questions =
                        Append(@, QuestionRow(t, difficulty, raw,
                                              ReturnedInfo(r.info, FALSE)))]
                   /\ rejectedLog' = Append(rejectedLog, attempt)
                   /\ pc' = "answer"
                   /\ UNCHANGED attempt
              ELSE /\ novelty' = r.self
                   /\ last_info' = ReturnedInfo(r.info, FALSE)
                   /\ attempt' = attempt + 1
                   /\ pc' = "gen"
                   /\ UNCHANGED <<store, rejectedLog>>
  /\ UNCHANGED <<cfg, ema, difficulty, t, nfVars, adj, pureVars>>

\* generate_novel_question after its loop: one more generator call, returned
\* unchecked with forced = True, written by main (generate.py 184-186)
GenForced ==
  /\ pc = "gen"
  /\ attempt >= cfg.max_regen
  /\ \E reply \in GenReplies :
       IF GenerateOf[reply].raised
       THEN /\ pc' = "crashed_reply"
            /\ UNCHANGED <<store, rejectedLog>>
       ELSE /\ store' = [store EXCEPT !.questions =
                 Append(@, QuestionRow(t, difficulty, GenerateOf[reply].question,
                                       ReturnedInfo(last_info, TRUE)))]
            /\ rejectedLog' = Append(rejectedLog, attempt)
            /\ pc' = "answer"
  /\ calls' = [calls EXCEPT !.unchecked = @ + 1]
  /\ UNCHANGED <<novelty, cfg, ema, difficulty, t, attempt, last_info, nfVars, adj, pureVars>>

\* the answerer replies; main writes the answer and calls the grader
Answer ==
  /\ pc = "answer"
  /\ store' = [store EXCEPT !.answers = Append(@, [t |-> t])]
  /\ pc' = "grade"
  /\ UNCHANGED <<novelty, cfg, ema, difficulty, t, attempt, last_info, calls,
                 rejectedLog, nfVars, adj, pureVars>>

\* the row main appends for the evaluation: {"t": t, ..., **ev}, where a
\* member of ev replaces main's of the same name (run.py 155-159)
EvalRow(tt, eval_model, ev) ==
  ev @@ [t |-> JNum(tt * SimScale), eval_model |-> JStr(eval_model)]

\* the grader replies; main writes the evaluation, updates the trend and the
\* difficulty, writes the metrics, prints the table row and goes to the next
\* t (run.py 149-188).  save_metrics writes the steps of this session over
\* the file, so the first step of a session replaces what the file held.
Grade ==
  /\ pc = "grade"
  /\ \E reply \in RepliesOf(cfg.eval_model) :
       IF EvaluateOf[reply].raised
       THEN /\ pc' = "crashed_reply"
            /\ UNCHANGED <<ema, difficulty, store, t, attempt, last_info, calls>>
       ELSE
         LET ev == EvaluateOf[reply].obj
             score == ev["score"].v
             e1 == update(ema, score * EmaUnit)
             d1 == adjust_difficulty(cfg, difficulty, e1.value)
         IN  /\ ema' = e1
             /\ difficulty' = d1
             /\ store' = [store EXCEPT
                  !.evals = Append(@, EvalRow(t, cfg.eval_model, ev)),
                  !.steps = Append(IF t = 0 THEN <<>> ELSE @,
                                   [t |-> t, score |-> score, ema |-> e1.value,
                                    difficulty_next |-> d1,
                                    error_tags |-> ev["error_tags"]])]
             /\ IF Joinable(ev["error_tags"])
                THEN /\ t' = t + 1
                     /\ attempt' = 0
                     /\ last_info' = NoInfo
                     /\ calls' = NoCalls
                     /\ pc' = IF t + 1 < cfg.n THEN "gen" ELSE "done"
                ELSE /\ pc' = "crashed_reply"
                     /\ UNCHANGED <<t, attempt, last_info, calls>>
  /\ UNCHANGED <<novelty, cfg, rejectedLog, nfVars, adj, pureVars>>

Next == Startup \/ GenCandidate \/ GenForced \/ Answer \/ Grade

Spec == Init /\ [][Next]_vars

(***************************************************************************)
(* Sessions on one run directory (--run-dir): when main has ended, by      *)
(* return or by an exception, it is started again with the same command    *)
(* line but for --n.  The files stay; the objects of the process are gone. *)
(***************************************************************************)
MaxCarried == 1    \* most question records in the directory a session starts on

Restart ==
  /\ pc \in {"done", "aborted", "crashed", "crashed_reply"}
  /\ Len(store.questions) <= MaxCarried
  /\ pc' = "boot"
  /\ \E n \in 1..MaxN : cfg' = [cfg EXCEPT !.n = n]
  /\ novelty' = NoveltyFilter(0, 0)
  /\ ema' = EMAScore(0)
  /\ difficulty' = 0
  /\ t' = 0
  /\ attempt' = 0
  /\ last_info' = NoInfo
  /\ calls' = NoCalls
  /\ UNCHANGED <<store, rejectedLog, nfVars, adj, pureVars>>

RunsNext == Next \/ Restart

SpecRuns == Init /\ [][RunsNext]_vars

(***************************************************************************)
(* A caller of adjust_difficulty: a policy, a starting difficulty, and any *)
(* number of calls, each fed the result of the one before.                 *)
(***************************************************************************)
\* the policies: difficulty_min <= difficulty_max within 1..5
Policies ==
  {[difficulty_min |-> lo, difficulty_max |-> hi] : lo \in 1..3, hi \in 3..5}

\* trend values at, next to and away from the two thresholds
Trends ==
  {0, DecreaseAt * EmaUnit - 1, DecreaseAt * EmaUnit, DecreaseAt * EmaUnit + 1,
   70 * EmaUnit,
   IncreaseAt * EmaUnit - 1, IncreaseAt * EmaUnit, IncreaseAt * EmaUnit + 1,
   SimScale * EmaUnit}

AdjInit ==
  /\ \E p \in Policies : \E c \in p.difficulty_min..p.difficulty_max :
       adj = [self |-> p, current |-> c, ema_value |-> None, result |-> None]
  /\ novelty = NoveltyFilter(0, 0)
  /\ NFIdle /\ SessIdle /\ PureIdle

AdjCall ==
  /\ \E v \in Trends :
       LET cur == IF adj.result = None THEN adj.current ELSE adj.result
       IN  adj' = [adj EXCEPT !.current = cur, !.ema_value = v,
                              !.result = adjust_difficulty(adj.self, cur, v)]
  /\ UNCHANGED <<novelty, nfVars, sessVars, pureVars>>

AdjNext == AdjCall

SpecAdj == AdjInit /\ [][AdjNext]_vars

(***************************************************************************)
(* A caller of alpha_from_half_life: any sequence of calls.                *)
(***************************************************************************)
MaxAlphaCalls == 3    \* calls of one caller

\* the half-lives of the calls, in hundredths: two that are refused and the
\* three whose alpha is a whole number of sixteenths (0.25, 0.5 and 1.0)
AlphaHalfLives == {0 - SimScale, 0, 25, 50, SimScale}

AlphaInit ==
  /\ alphaCalls = <<>>
  /\ evalCall = <<>> /\ focus = <<>>
  /\ novelty = NoveltyFilter(0, 0)
  /\ NFIdle /\ SessIdle /\ AdjIdle

AlphaCall ==
  /\ Len(alphaCalls) < MaxAlphaCalls
  /\ \E h \in AlphaHalfLives :
       alphaCalls' = Append(alphaCalls,
                            [half_life |-> h,
                             raised |-> alpha_from_half_life(h).raised,
                             alpha |-> alpha_from_half_life(h).alpha])
  /\ UNCHANGED <<novelty, nfVars, sessVars, adj, evalCall, focus>>

AlphaNext == AlphaCall

SpecAlpha == AlphaInit /\ [][AlphaNext]_vars

(***************************************************************************)
(* A caller of Evaluator.evaluate: the grader replies, evaluate returns or *)
(* raises.                                                                 *)
(***************************************************************************)
\* a member the reply's object does not have
Absent == [ty |-> "absent"]

Member(k, v) == IF v = Absent THEN <<>> ELSE (k :> v)

\* what a reply gives as "score": nothing, a number in and out of range, a
\* string that is a number and one that is not, null, true
ScoreMembers ==
  {Absent, JNum(70), JNum(150), JNum(0 - 50), JStr("0.7"), JStr("abc"), JNull,
   JBool(TRUE)}

\* what a reply gives as "subscores": nothing, null, a list, an object
\* without members, one with values out of range, one with another key
SubscoreMembers ==
  {Absent, JNull, JList(<<>>), JObj(<<>>),
   JObj([correctness |-> JNum(150), safety |-> JNum(0 - 50)]),
   JObj([depth |-> JStr("abc")])}

\* what a reply gives as "error_tags": nothing, a list of strings, a list
\* with a number, a string, null
TagMembers ==
  {Absent, JList(<<JStr("wrong_math")>>), JList(<<JNum(SimScale)>>),
   JStr("abc"), JNull}

\* the grader's replies: the objects with these members, and GradeReplies
EvalReplies ==
  {[json |-> JObj(Member("score", sc) @@ Member("subscores", sb)
                    @@ Member("error_tags", tg))] :
     sc \in ScoreMembers, sb \in SubscoreMembers, tg \in TagMembers}
    \cup GradeReplies

EvalInit ==
  /\ evalCall = <<>>
  /\ alphaCalls = <<>> /\ focus = <<>>
  /\ novelty = NoveltyFilter(0, 0)
  /\ NFIdle /\ SessIdle /\ AdjIdle

EvalCall ==
  /\ \E reply \in EvalReplies :
       evalCall' = [reply |-> reply, raised |-> evaluate(reply).raised,
                    obj |-> IF evaluate(reply).raised THEN <<>>
                            ELSE evaluate(reply).obj]
  /\ UNCHANGED <<novelty, nfVars, sessVars, adj, alphaCalls, focus>>

EvalNext == EvalCall

SpecEval == EvalInit /\ [][EvalNext]_vars

(***************************************************************************)
(* EvolutionPolicy.next_focus (evolve.py) and its caller.  An evaluation   *)
(* record is its error_tags, a list of strings, and its subscores, the     *)
(* (key, value) pairs of the dict in their order.                          *)
(***************************************************************************)
MaxWindow == 2    \* largest configured evolution.window
MaxTopK == 2      \* largest configured evolution.focus_top_k_tags
MaxEvals == 3     \* longest evaluation history handed to next_focus

\* a subscore below this is low, in hundredths
WeakBelow == 60

\* how many low subscore keys become skills
TopSubs == 3

skill_map ==
  [correctness |-> "structured reasoning",
   completeness |-> "constraint following",
   reasoning_quality |-> "structured reasoning",
   format_compliance |-> "constraint following",
   safety |-> "robustness / uncertainty"]

DefaultFocus == <<"mixed reasoning and analysis">>

\* the keys of Counter(seq): the elements in the order they first occur
RECURSIVE Distinct(_)
Distinct(seq) ==
  IF seq = <<>> THEN <<>>
  ELSE LET d == Distinct(SubSeq(seq, 1, Len(seq) - 1))
       IN  IF \E i \in 1..Len(d) : d[i] = seq[Len(seq)] THEN d
           ELSE Append(d, seq[Len(seq)])

Count(seq, x) == Cardinality({i \in 1..Len(seq) : seq[i] = x})

\* x put into a list sorted by count, largest first, behind its equals
RECURSIVE InsertByCount(_, _, _)
InsertByCount(sorted, x, seq) ==
  IF sorted = <<>> THEN <<x>>
  ELSE IF Count(seq, x) > Count(seq, Head(sorted)) THEN <<x>> \o sorted
  ELSE <<Head(sorted)>> \o InsertByCount(Tail(sorted), x, seq)

\* sorted(counter.items(), key=count, reverse=True): a stable sort
RECURSIVE SortByCount(_, _)
SortByCount(keys, seq) ==
  IF keys = <<>> THEN <<>>
  ELSE InsertByCount(SortByCount(SubSeq(keys, 1, Len(keys) - 1), seq),
                     keys[Len(keys)], seq)

\* Counter(seq).most_common(n), the elements only
most_common(seq, n) ==
  LET ranked == SortByCount(Distinct(seq), seq)
  IN  SubSeq(ranked, 1, PyMin(PyMax(n, 0), Len(ranked)))

\* the test of evolve.py 42 on one (key, value) pair; a value float() refuses
\* is skipped
IsLow(pair) ==
  /\ ~Float(pair[2]).raised
  /\ Float(pair[2]).v < WeakBelow
  /\ pair[1] # "safety"

\* the keys one record adds to low_subskills
LowKeys(e) ==
  LET low == SelectSeq(e.subscores, IsLow)
  IN  [i \in 1..Len(low) |-> low[i][1]]

\* tags after the loop over the records
RECURSIVE TagsOf(_)
TagsOf(records) ==
  IF records = <<>> THEN <<>>
  ELSE Head(records).error_tags \o TagsOf(Tail(records))

\* low_subskills after the loop over the records
RECURSIVE LowOf(_)
LowOf(records) ==
  IF records = <<>> THEN <<>>
  ELSE LowKeys(Head(records)) \o LowOf(Tail(records))

\* skill_map.get(s, s)
SkillOf(sub) == IF sub \in DOMAIN skill_map THEN skill_map[sub] ELSE sub

next_focus(self, eval_history) ==
  LET recent == LastSlice(eval_history, self.window)
      top_tags == most_common(TagsOf(recent), self.focus_top_k_tags)
      top_subs == most_common(LowOf(recent), TopSubs)
      focus_skills == [i \in 1..Len(top_subs) |-> SkillOf(top_subs[i])]
  IN  [focus_skills |-> IF focus_skills = <<>> THEN DefaultFocus ELSE focus_skills,
       top_tags |-> top_tags]

\* the evaluation records of the histories
EvalRecords ==
  {[error_tags |-> <<"wrong_math">>,
    subscores |-> <<<<"correctness", JNum(59)>>, <<"safety", JNum(0)>>>>],
   [error_tags |-> <<"hallucination", "wrong_math">>,
    subscores |-> <<<<"correctness", JNum(WeakBelow)>>, <<"depth", JNum(0)>>,
                    <<"completeness", JStr("abc")>>>>],
   [error_tags |-> <<"hallucination">>,
    subscores |-> <<<<"format_compliance", JNum(0)>>, <<"reasoning_quality", JNum(0)>>,
                    <<"completeness", JNum(0)>>, <<"correctness", JNum(0)>>>>],
   [error_tags |-> <<>>,
    subscores |-> <<<<"correctness", JNum(SimScale)>>, <<"safety", JNum(SimScale)>>>>]}

FocusPolicies ==
  {[window |-> w, focus_top_k_tags |-> k] : w \in 0..MaxWindow, k \in 0..MaxTopK}

FocusInit ==
  /\ focus = <<>>
  /\ alphaCalls = <<>> /\ evalCall = <<>>
  /\ novelty = NoveltyFilter(0, 0)
  /\ NFIdle /\ SessIdle /\ AdjIdle

\* the caller makes one call
FocusCall ==
  /\ focus = <<>>
  /\ \E self \in FocusPolicies, h \in SeqsUpTo(EvalRecords, MaxEvals) :
       focus' = [self |-> self, eval_history |-> h,
                 focus_skills |-> next_focus(self, h).focus_skills,
                 top_tags |-> next_focus(self, h).top_tags]
  /\ UNCHANGED <<novelty, nfVars, sessVars, adj, alphaCalls, evalCall>>

FocusNext == FocusCall

SpecFocus == FocusInit /\ [][FocusNext]_vars

(***************************************************************************)
(* Claims about the session, checked under Spec, and about                 *)
(* adjust_difficulty, checked under SpecAdj.                               *)
(***************************************************************************)
Clamp(lo, hi, x) == IF x < lo THEN lo ELSE IF x > hi THEN hi ELSE x

LastQuestion == store.questions[Len(store.questions)]

\* C6: a question record carries forced = True exactly when all max_regen
\* candidates of its iteration were rejected, and the iteration that forced
\* a question has exactly one question record.
C6_ForcedIffBudgetExhausted ==
  pc \notin {"boot", "idle"} =>
    /\ Len(rejectedLog) = Len(store.questions)
    /\ \A i \in 1..Len(store.questions) :
         /\ store.questions[i].novelty.forced <=> rejectedLog[i] = cfg.max_regen
         /\ store.questions[i].novelty.forced =>
              Cardinality({j \in 1..Len(store.questions) :
                             store.questions[j].t = store.questions[i].t}) = 1
    /\ (pc \in {"answer", "grade"} /\ attempt = cfg.max_regen) =>
         (LastQuestion.t = t /\ LastQuestion.novelty.forced)

\* C6 witness: a question was forced after two rejected candidates
C6_Witness ==
  /\ pc = "answer"
  /\ cfg.max_regen = 2
  /\ LastQuestion.novelty.forced
  /\ rejectedLog[Len(rejectedLog)] = 2

\* C7: generate_novel_question makes at most max_regen checked generator
\* calls and at most one unchecked call, and always returns a question.
C7_GenerateAlwaysReturns ==
  pc \notin {"boot", "idle"} =>
    /\ calls.checked <= cfg.max_regen
    /\ calls.unchecked <= 1
    /\ pc # "crashed"

\* C8: a forced question is in the history and the fingerprint set before
\* the answerer is called, so that is_novel on its text reports an exact
\* duplicate.
C8_ForcedIsRegistered ==
  (pc = "answer" /\ LastQuestion.novelty.forced) =>
    /\ \E i \in 1..Len(novelty.texts) : novelty.texts[i] = LastQuestion.question
    /\ is_novel(novelty, LastQuestion.question).info.hash_dup

\* C9: adjust_difficulty returns clamp(current + 1) for a trend >= 0.82,
\* clamp(current - 1) for a trend <= 0.62 and clamp(current) in between;
\* (3, 0.82) gives 4, (3, 0.62) gives 2 and (3, 0.7) gives 3.
C9_AdjustDifficulty ==
  adj.result # None =>
    LET lo == adj.self.difficulty_min
        hi == adj.self.difficulty_max
        v == adj.ema_value
    IN  /\ v >= 82 * EmaUnit => adj.result = Clamp(lo, hi, adj.current + 1)
        /\ v <= 62 * EmaUnit => adj.result = Clamp(lo, hi, adj.current - 1)
        /\ (62 * EmaUnit < v /\ v < 82 * EmaUnit) =>
             adj.result = Clamp(lo, hi, adj.current)
        /\ (lo = 1 /\ hi = 5 /\ adj.current = 3) =>
             /\ v = 82 * EmaUnit => adj.result = 4
             /\ v = 62 * EmaUnit => adj.result = 2
             /\ v = 70 * EmaUnit => adj.result = 3

\* C9 witness: adjust_difficulty(3, 0.82) returned 4 under the bounds [1, 5]
C9_Witness ==
  /\ adj.result = 4
  /\ adj.current = 3
  /\ adj.ema_value = 82 * EmaUnit
  /\ adj.self = [difficulty_min |-> 1, difficulty_max |-> 5]

\* C10: in every state of a session, and in every question record, the
\* difficulty lies within the configured [difficulty_min, difficulty_max].
C10_DifficultyWithinConfiguredBounds ==
  pc \in {"gen", "answer", "grade", "done", "crashed"} =>
    /\ cfg.difficulty_min <= difficulty /\ difficulty <= cfg.difficulty_max
    /\ \A i \in 1..Len(store.questions) :
         /\ cfg.difficulty_min <= store.questions[i].difficulty
         /\ store.questions[i].difficulty <= cfg.difficulty_max

(***************************************************************************)
(* Claims about the trend and the startup of a session, checked under Spec.*)
(***************************************************************************)
\* C11: the first update of a session sets and returns the score itself,
\* every later one alpha*x + (1-alpha)*v of the value v before it; with
\* alpha = 0.5, update(1.0) then update(0.0) returns 0.5.  The loop has
\* applied update once per completed iteration: the trend main holds is the
\* one of the last metrics step, and it is None only before the first.
C11_EmaUpdate ==
  pc \in {"gen", "answer", "grade", "done", "crashed"} =>
    /\ Len(store.steps) = t
    /\ (ema.value = None) <=> (t = 0)
    /\ t > 0 => ema.value = store.steps[t].ema
    /\ \A k \in 1..Len(store.steps) :
         /\ k = 1 => store.steps[k].ema = store.steps[k].score * EmaUnit
         /\ k > 1 => store.steps[k].ema * AlphaDen =
                       ema.alpha * store.steps[k].score * EmaUnit
                         + (AlphaDen - ema.alpha) * store.steps[k - 1].ema
    /\ (2 * ema.alpha = AlphaDen /\ Len(store.steps) >= 2
          /\ store.steps[1].score = SimScale /\ store.steps[2].score = 0)
         => 2 * store.steps[2].ema = SimScale * EmaUnit

\* C11 witness: two updates with weights that differ (alpha = 0.75): 1.0
\* then 0.0 gave 0.25
C11_Witness ==
  /\ Len(store.steps) = 2
  /\ 4 * ema.alpha = 3 * AlphaDen
  /\ store.steps[1].score = SimScale /\ store.steps[2].score = 0
  /\ 4 * ema.value = SimScale * EmaUnit

\* C12: alpha_from_half_life raises for every half-life <= 0, and a session
\* started with such a half-life never leaves startup: it makes no generator
\* call and appends no record.
C12_BadHalfLifeAbortsBeforeLoop ==
  [][cfg'.half_life <= 0 =>
       /\ alpha_from_half_life(cfg'.half_life).raised
       /\ pc' \in {"boot", "aborted"}
       /\ store' = store
       /\ calls' = NoCalls]_vars

\* C12 witness: a session given the half-life 0 has aborted
C12_Witness == pc = "aborted" /\ cfg.half_life = 0 /\ store = EmptyStore

\* C13: a session configured with a similarity threshold outside [0, 1]
\* aborts at startup and never reaches an iteration.
C13_BadThresholdAborts ==
  (cfg.max_sim < 0 \/ cfg.max_sim > SimScale) => pc \in {"boot", "aborted"}

C14_NoReplyCrashesLoop == pc # "crashed_reply"

\* the members of the object the grader replied with
ReplyFields == evalCall.reply.json.fields

\* C15: for every reply that parses to an object, evaluate returns a record
\* with score and every subscore in [0, 1] and error_tags a list; a missing
\* score is 0.0, a missing subscore 0.0 (safety: 1.0), a number out of range
\* is clamped, and error_tags that are no list become [].
C15_EvaluateNormalizes ==
  (evalCall # <<>> /\ evalCall.reply.json.ty = "obj") =>
    /\ ~evalCall.raised
    /\ LET ev == evalCall.obj
           subs == ev["subscores"].fields
       IN  /\ ev["score"].ty = "num"
           /\ 0 <= ev["score"].v /\ ev["score"].v <= SimScale
           /\ \A k \in DOMAIN subs :
                subs[k].ty = "num" /\ 0 <= subs[k].v /\ subs[k].v <= SimScale
           /\ ev["error_tags"].ty = "list"
           /\ "score" \notin DOMAIN ReplyFields => ev["score"].v = 0
           /\ \A i \in 1..Len(SubscoreKeys) :
                /\ SubscoreKeys[i] \in DOMAIN subs
                /\ ("subscores" \notin DOMAIN ReplyFields
                      \/ SubscoreKeys[i] \notin DOMAIN ReplyFields["subscores"].fields)
                     => subs[SubscoreKeys[i]].v =
                          (IF SubscoreKeys[i] = "safety" THEN SimScale ELSE 0)
           /\ ("score" \in DOMAIN ReplyFields /\ ReplyFields["score"].ty = "num")
                => ev["score"].v = Clamp(0, SimScale, ReplyFields["score"].v)
           /\ "subscores" \in DOMAIN ReplyFields =>
                \A k \in DOMAIN ReplyFields["subscores"].fields :
                  ReplyFields["subscores"].fields[k].ty = "num" =>
                    subs[k].v = Clamp(0, SimScale, ReplyFields["subscores"].fields[k].v)
           /\ "error_tags" \in DOMAIN ReplyFields =>
                ev["error_tags"] = (IF ReplyFields["error_tags"].ty = "list"
                                    THEN ReplyFields["error_tags"] ELSE JList(<<>>))
           /\ "error_tags" \notin DOMAIN ReplyFields => ev["error_tags"] = JList(<<>>)

\* the records and the metrics steps written for the iterations before k
\* are complete: k of each
Written(k, nq, na, ne) ==
  /\ Len(store.questions) = k + nq
  /\ Len(store.answers) = k + na
  /\ Len(store.evals) = k + ne
  /\ Len(store.steps) = k + ne

\* C16: iteration n appends one question record, then one answer record,
\* then one evaluation record, all with ordinal n; nothing of iteration n+1
\* is generated or appended before the three records and the metrics step of
\* iteration n are written; k completed iterations have written k triples
\* and k metrics steps.
C16_OneTriplePerIteration ==
  pc \in {"gen", "answer", "grade", "done"} =>
    /\ \A i \in 1..Len(store.questions) : store.questions[i].t = i - 1
    /\ \A i \in 1..Len(store.answers) : store.answers[i].t = i - 1
    /\ \A i \in 1..Len(store.evals) : store.evals[i]["t"] = JNum((i - 1) * SimScale)
    /\ \A i \in 1..Len(store.steps) : store.steps[i].t = i - 1
    /\ pc = "gen" => Written(t, 0, 0, 0)
    /\ pc = "answer" => Written(t, 1, 0, 0)
    /\ pc = "grade" => Written(t, 1, 1, 0)
    /\ pc = "done" => (t = cfg.n /\ Written(t, 0, 0, 0))

\* C18: the index a restart would build by seeding from the store's question
\* records has the history and the fingerprint set of the index the session
\* that wrote them holds at its end.
C18_ReseededIndexIsTheSame ==
  pc = "done" =>
    seed(NoveltyFilter(cfg.max_sim, cfg.max_history),
         QuestionTexts(store.questions)) = novelty

(***************************************************************************)
(* Claims about next_focus, checked under SpecFocus.                       *)
(***************************************************************************)
\* the most recent window records of the history handed to next_focus
Window ==
  MostRecent(focus.eval_history, Min(Len(focus.eval_history), focus.self.window))

\* the index at which x first occurs in seq
First(seq, x) == CHOOSE i \in 1..Len(seq) : seq[i] = x /\ \A j \in 1..(i - 1) : seq[j] # x

\* x ranks before y: more occurrences, or as many and seen first
RanksBefore(seq, x, y) ==
  \/ Count(seq, x) > Count(seq, y)
  \/ Count(seq, x) = Count(seq, y) /\ First(seq, x) < First(seq, y)

\* C19: the focus tags are the at most focus_top_k_tags error tags of the
\* most recent window records with the highest counts, by count descending
\* and first occurrence; a tag of older records only never appears.
C19_FocusTagsFromWindow ==
  focus # <<>> =>
    LET w == TagsOf(Window)
        D == {w[i] : i \in 1..Len(w)}
        r == focus.top_tags
        R == {r[i] : i \in 1..Len(r)}
    IN  /\ Len(r) = Min(focus.self.focus_top_k_tags, Cardinality(D))
        /\ R \subseteq D
        /\ \A i \in 1..Len(r) : \A j \in (i + 1)..Len(r) : RanksBefore(w, r[i], r[j])
        /\ \A x \in D \ R : \A i \in 1..Len(r) : RanksBefore(w, r[i], x)

\* the keys of a record that count as weak: a number below 0.6, not safety
WeakDims(e) ==
  {e.subscores[i][1] : i \in {j \in 1..Len(e.subscores) :
     /\ e.subscores[j][2].ty = "num"
     /\ e.subscores[j][2].v < 60
     /\ e.subscores[j][1] # "safety"}}

\* the records of the window in which d is weak
WeakCount(d) == Cardinality({i \in 1..Len(Window) : d \in WeakDims(Window[i])})

\* C20: a dimension is weak once per record of the window where its value
\* is < 0.6, safety never; the focus skills are the top 3 weak dimensions by
\* count, mapped through the lookup (others unchanged), at most 3 and never
\* none: exactly the catch-all label when no dimension is weak.
C20_FocusSkillsFromWeakDims ==
  focus # <<>> =>
    LET W == UNION {WeakDims(Window[i]) : i \in 1..Len(Window)}
        m == Min(3, Cardinality(W))
        fs == focus.focus_skills
    IN  /\ 1 <= Len(fs) /\ Len(fs) <= 3
        /\ W = {} => fs = <<"mixed reasoning and analysis">>
        /\ W # {} =>
             \E r \in [1..m -> W] :
               /\ \A i \in 1..m : \A j \in (i + 1)..m :
                    r[i] # r[j] /\ WeakCount(r[i]) >= WeakCount(r[j])
               /\ \A x \in W \ {r[i] : i \in 1..m} :
                    \A i \in 1..m : WeakCount(r[i]) >= WeakCount(x)
               /\ fs = [i \in 1..m |-> IF r[i] \in DOMAIN skill_map
                                       THEN skill_map[r[i]] ELSE r[i]]

(***************************************************************************)
(* Claims about the question records, checked under Spec.                  *)
(***************************************************************************)
\* C22: the novelty info of every question record is what is_novel gives for
\* the text of that record against the index as it was when the question was
\* returned, for forced records too; a record that is not forced has
\* hash_dup = False and max_sim below the threshold.
C22_InfoDescribesOwnText ==
  [][Len(store'.questions) = Len(store.questions) + 1 =>
       LET rec == store'.questions[Len(store'.questions)]
           own == is_novel(novelty, rec.question)
       IN  /\ ~own.raised
           /\ rec.novelty.hash_dup = own.info.hash_dup
           /\ rec.novelty.max_sim = own.info.max_sim
           /\ rec.novelty.sim_to_index = own.info.sim_to_index
           /\ ~rec.novelty.forced =>
                (~rec.novelty.hash_dup /\ rec.novelty.max_sim < cfg.max_sim)]_vars

(***************************************************************************)
(* Claims about sessions on one run directory, checked under SpecRuns.     *)
(***************************************************************************)
\* C21: a question record that is not forced never has the normalized text
\* of one of the max_history questions issued before it (in its session or
\* seeded from the store): a repeat is rejected or recorded as forced.
C21_NoUnforcedRepeat ==
  pc # "boot" =>
    \A i \in 1..Len(store.questions) : \A j \in 1..(i - 1) :
      (~store.questions[i].novelty.forced /\ i - j <= cfg.max_history) =>
        normalize_text(store.questions[j].question)
          # normalize_text(store.questions[i].question)

\* C23: after any number of sessions on one run directory no ordinal t is in
\* two question records, two answer records or two evaluation records.
C23_OrdinalsAreUnique ==
  /\ \A i \in 1..Len(store.questions) : \A j \in 1..(i - 1) :
       store.questions[i].t # store.questions[j].t
  /\ \A i \in 1..Len(store.answers) : \A j \in 1..(i - 1) :
       store.answers[i].t # store.answers[j].t
  /\ \A i \in 1..Len(store.evals) : \A j \in 1..(i - 1) :
       store.evals[i]["t"] # store.evals[j]["t"]

=============================================================================
